---- MODULE Spec2Model ----
(***************************************************************************)
(* A model of convert.py: the GPU vendor detector, the single-file         *)
(* converter and the batch driver, with the external processes (the        *)
(* inventory command and the transcoder) and the two directories as the    *)
(* environment.                                                            *)
(*                                                                         *)
(* Text (file names, command output) is a sequence of one-character        *)
(* strings, so that lower(), endswith(), replace() and the "in" substring  *)
(* test are computed character by character as Python computes them.       *)
(***************************************************************************)
EXTENDS Integers, Sequences, FiniteSets, TLC

VARIABLES
    system,        \* platform.system() of the machine
    detector_out,  \* the text the inventory command of this machine prints
    env,           \* per input name, the outcomes the external processes may have
    input_dir,     \* os.listdir(input_dir), in the platform's order
    out_exists,    \* whether the output directory exists
    out_dir,       \* the names of the files in the output directory
    operation,     \* the command-line argument: "convert" or "convert-diff"
    pc,            \* the position of the program
    mov_files,     \* process_all_mov_files: the work list
    idx,           \* process_all_mov_files: the loop index (from 1)
    gpu_vendor,    \* convert_h265_to_h264: the result of detect_gpu_vendor()
    running,       \* the external processes running now (indices into procs)
    procs,         \* every external process spawned so far, in order
    calls,         \* every call convert_h265_to_h264(input_file, output_file) so far
    stdout,        \* every line printed so far
    list_out,      \* the output directory's files when the work list was built
    runs,          \* the finished earlier runs of the program, in order
    start_out      \* the output directory's files before the first run

vars == <<system, detector_out, env, input_dir, out_exists, out_dir, operation, pc,
          mov_files, idx, gpu_vendor, running, procs, calls, stdout, list_out,
          runs, start_out>>

----------------------------------------------------------------------------
(* Python's str operations, on sequences of characters. *)

UpperChars == <<"A","B","C","D","E","F","G","H","I","J","K","L","M",
                "N","O","P","Q","R","S","T","U","V","W","X","Y","Z">>
LowerChars == <<"a","b","c","d","e","f","g","h","i","j","k","l","m",
                "n","o","p","q","r","s","t","u","v","w","x","y","z">>

LowerChar(c) ==
    IF \E i \in 1..Len(UpperChars) : UpperChars[i] = c
    THEN LowerChars[CHOOSE i \in 1..Len(UpperChars) : UpperChars[i] = c]
    ELSE c

\* str.lower()
Lower(s) == [i \in 1..Len(s) |-> LowerChar(s[i])]

\* str.endswith(suffix)
EndsWith(s, suffix) ==
    /\ Len(s) >= Len(suffix)
    /\ SubSeq(s, Len(s) - Len(suffix) + 1, Len(s)) = suffix

\* str.startswith(prefix)
StartsWith(s, prefix) ==
    /\ Len(s) >= Len(prefix)
    /\ SubSeq(s, 1, Len(prefix)) = prefix

\* sub in s
Contains(s, sub) ==
    \E i \in 1..(Len(s) - Len(sub) + 1) : SubSeq(s, i, i + Len(sub) - 1) = sub

\* str.replace(old, new): every non-overlapping occurrence, from the left
RECURSIVE Replace(_, _, _)
Replace(s, old, new) ==
    IF Len(s) < Len(old) THEN s
    ELSE IF StartsWith(s, old)
         THEN new \o Replace(SubSeq(s, Len(old) + 1, Len(s)), old, new)
         ELSE <<s[1]>> \o Replace(Tail(s), old, new)

DotMov == <<".", "m", "o", "v">>
DotMp4 == <<".", "m", "p", "4">>

----------------------------------------------------------------------------
(* detect_gpu_vendor *)

nvidia == <<"n","v","i","d","i","a">>
amd    == <<"a","m","d">>
radeon == <<"r","a","d","e","o","n">>
apple  == <<"a","p","p","l","e">>
m1     == <<"m","1">>
m2     == <<"m","2">>

\* The command detect_gpu_vendor runs on each system; <<>> where it runs none.
DetectorCommand(sys) ==
    CASE sys = "Linux"   -> <<"lspci">>
      [] sys = "Windows" -> <<"wmic", "path", "win32_videocontroller", "get", "name">>
      [] sys = "Darwin"  -> <<"sysctl", "machdep.cpu.brand_string">>
      [] OTHER           -> <<>>

\* A detector that looks for amd before nvidia on every system.
DetectGpuVendorAmdFirst(sys, raw) ==
    LET output == Lower(raw) IN
    IF sys \in {"Linux", "Windows", "Darwin"}
    THEN IF sys = "Darwin" /\ (Contains(output, apple) \/ Contains(output, m1)
                                  \/ Contains(output, m2))
         THEN "apple"
         ELSE IF Contains(output, amd) \/ Contains(output, radeon) THEN "amd"
         ELSE IF Contains(output, nvidia) THEN "nvidia"
         ELSE "none"
    ELSE "none"

\* The value detect_gpu_vendor returns on system sys when its command printed
\* raw ("none" for Python's None).
DetectGpuVendor(sys, raw) ==
    LET output == Lower(raw) IN
    CASE sys = "Linux" ->
            IF Contains(output, nvidia) THEN "nvidia"
            ELSE IF Contains(output, amd) \/ Contains(output, radeon) THEN "amd"
            ELSE "none"
      [] sys = "Windows" ->
            IF Contains(output, nvidia) THEN "nvidia"
            ELSE IF Contains(output, amd) \/ Contains(output, radeon) THEN "amd"
            ELSE "none"
      [] sys = "Darwin" ->
            IF Contains(output, apple) \/ Contains(output, m1) \/ Contains(output, m2)
            THEN "apple"
            ELSE IF Contains(output, amd) \/ Contains(output, radeon) THEN "amd"
            ELSE IF Contains(output, nvidia) THEN "nvidia"
            ELSE "none"
      [] OTHER -> "none"

----------------------------------------------------------------------------
(* convert_h265_to_h264 *)

\* The encoder chosen for a vendor.
Codec(vendor) ==
    CASE vendor = "nvidia" -> "h264_nvenc"
      [] vendor = "amd"    -> "h264_amf"
      [] vendor = "apple"  -> "h264_videotoolbox"
      [] OTHER             -> "libx264"

\* The transcoder's command line (the fixed arguments are kept in one field).
Command(input_file, output_file, vendor) ==
    [cmd    |-> "ffmpeg",
     fixed  |-> <<"-hwaccel", "auto", "-preset", "slow", "-crf", "23", "-c:a", "copy">>,
     input  |-> input_file,
     codec  |-> Codec(vendor),
     output |-> output_file]

----------------------------------------------------------------------------
(* process_all_mov_files *)

InputDir  == <<"i">>
OutputDir == <<"o">>

\* os.path.join(dir, name)
Join(dir, name) == dir \o <<"/">> \o name

\* An existence test that looks the path up among the bare file names.
ExistsBareName(path, files) == path \in files

\* os.path.exists(path), for a path of the output directory holding files
Exists(path, files) == \E n \in files : path = Join(OutputDir, n)

\* f.lower().endswith(".mov")
IsMov(f) == EndsWith(Lower(f), DotMov)

\* f.lower().replace(".mov", ".mp4")
OutputName(f) == Replace(Lower(f), DotMov, DotMp4)

\* A listing filter that forgets lower().
MovFilesCaseSensitive(listing) == SelectSeq(listing, LAMBDA f : EndsWith(f, DotMov))

\* [f for f in os.listdir(input_dir) if f.lower().endswith(".mov")]
MovFiles(listing) == SelectSeq(listing, IsMov)

\* A diff-mode filter with its test inverted.
DiffFilterInverted(files, existing) ==
    SelectSeq(files, LAMBDA f : Exists(Join(OutputDir, OutputName(f)), existing))

\* The diff-mode filter: the files whose output does not exist yet.
DiffFilter(files, existing) ==
    SelectSeq(files, LAMBDA f : ~Exists(Join(OutputDir, OutputName(f)), existing))

\* A work list that is filtered in both modes.
WorkListAlwaysFiltered(listing, diff, existing) ==
    DiffFilter(MovFiles(listing), existing)

\* The work list process_all_mov_files builds.
WorkList(listing, diff, existing) ==
    IF diff THEN DiffFilter(MovFiles(listing), existing) ELSE MovFiles(listing)

----------------------------------------------------------------------------
(* The environment: what the external processes may do for an input file. *)

Outcomes == {"detector_oserror",  \* the inventory command cannot be started
             "ffmpeg_oserror",    \* the transcoder cannot be started
             "exit0",             \* the transcoder exits 0, the output file written
             "exit1",             \* the transcoder exits non-zero, no output file
             "exit1_partial"}     \* the transcoder exits non-zero, a partial file left

\* The outcomes possible on a system: one that runs no inventory command has
\* none to fail.
OutcomesOn(sys) ==
    IF sys \in {"Linux", "Windows", "Darwin"} THEN Outcomes
    ELSE Outcomes \ {"detector_oserror"}

\* main: the diff argument it passes for an operation
Diff(op) == op = "convert-diff"

\* The loop's current file and its two paths.
file_name   == mov_files[idx]
input_file  == Join(InputDir, file_name)
output_file == Join(OutputDir, OutputName(file_name))

\* A printed line: its kind, the path it names, and the failure detail if any.
Line(kind, path, detail) == [line |-> kind, path |-> path, detail |-> detail]

\* A started process, and the list of processes once the last one has ended.
Proc(cmd, argv) == [cmd |-> cmd, argv |-> argv, status |-> "running"]
Ended(ps, status) == [ps EXCEPT ![Len(ps)].status = status]

\* The state the guard of the loop leaves after one iteration's failure or end.
NextFile(printed) ==
    /\ stdout' = stdout \o printed
    /\ idx' = idx + 1
    /\ pc' = "loop"

\* main and the head of process_all_mov_files: the output directory is created
\* when absent and the work list is built.
Main ==
    /\ pc = "main"
    /\ out_exists' = TRUE
    /\ mov_files' = WorkList(input_dir, Diff(operation), out_dir)
    /\ list_out' = out_dir
    /\ idx' = 1
    /\ pc' = "loop"
    /\ UNCHANGED <<system, detector_out, env, input_dir, out_dir, operation,
                   gpu_vendor, running, procs, calls, stdout, runs, start_out>>

\* The loop's skip check finds the output file: a skip notice, next file.
Skip ==
    /\ pc = "loop"
    /\ idx <= Len(mov_files)
    /\ Exists(output_file, out_dir)
    /\ NextFile(<<Line("skip", output_file, "")>>)
    /\ UNCHANGED <<system, detector_out, env, input_dir, out_exists, out_dir,
                   operation, mov_files, gpu_vendor, running, procs, calls,
                   list_out, runs, start_out>>

\* A loop that calls the converter without the skip check.
ProcessUnchecked ==
    /\ pc = "loop"
    /\ idx <= Len(mov_files)
    /\ stdout' = Append(stdout, [line |-> "processing", idx |-> idx,
                                 total |-> Len(mov_files), path |-> input_file,
                                 detail |-> ""])
    /\ calls' = Append(calls, [input |-> input_file, output |-> output_file])
    /\ pc' = "detect"
    /\ UNCHANGED <<system, detector_out, env, input_dir, out_exists, out_dir,
                   operation, mov_files, idx, gpu_vendor, running, procs,
                   list_out, runs, start_out>>

\* The loop prints the progress line and calls convert_h265_to_h264.
Process ==
    /\ pc = "loop"
    /\ idx <= Len(mov_files)
    /\ ~Exists(output_file, out_dir)
    /\ stdout' = Append(stdout, [line |-> "processing", idx |-> idx,
                                 total |-> Len(mov_files), path |-> input_file,
                                 detail |-> ""])
    /\ calls' = Append(calls, [input |-> input_file, output |-> output_file])
    /\ pc' = "detect"
    /\ UNCHANGED <<system, detector_out, env, input_dir, out_exists, out_dir,
                   operation, mov_files, idx, gpu_vendor, running, procs,
                   list_out, runs, start_out>>

\* The loop is over.
Finish ==
    /\ pc = "loop"
    /\ idx > Len(mov_files)
    /\ pc' = "done"
    /\ UNCHANGED <<system, detector_out, env, input_dir, out_exists, out_dir,
                   operation, mov_files, idx, gpu_vendor, running, procs, calls,
                   stdout, list_out, runs, start_out>>

\* detect_gpu_vendor on a system it knows no command for: None, no process.
DetectUnsupported ==
    /\ pc = "detect"
    /\ DetectorCommand(system) = <<>>
    /\ gpu_vendor' = DetectGpuVendor(system, <<>>)
    /\ pc' = "transcode"
    /\ UNCHANGED <<system, detector_out, env, input_dir, out_exists, out_dir,
                   operation, mov_files, idx, running, procs, calls, stdout,
                   list_out, runs, start_out>>

\* detect_gpu_vendor starts its inventory command.
DetectSpawn ==
    /\ pc = "detect"
    /\ DetectorCommand(system) # <<>>
    /\ env[file_name] # {"detector_oserror"}
    /\ procs' = Append(procs, Proc(DetectorCommand(system)[1], DetectorCommand(system)))
    /\ running' = running \cup {Len(procs) + 1}
    /\ pc' = "detect_wait"
    /\ UNCHANGED <<system, detector_out, env, input_dir, out_exists, out_dir,
                   operation, mov_files, idx, gpu_vendor, calls, stdout,
                   list_out, runs, start_out>>

\* A loop without its guard: the error leaves the program.
GuardMissing(cmd) ==
    /\ pc' = "aborted"
    /\ UNCHANGED <<stdout, idx>>

\* The exception handler of the loop, for an error of starting cmd: the
\* failure notice, then the next file.
Guard(cmd) == NextFile(<<Line("failed", input_file, cmd)>>)

\* The inventory command cannot be started: subprocess.run raises, nothing in
\* detect_gpu_vendor or convert_h265_to_h264 catches it, the loop's guard does.
DetectSpawnFails ==
    /\ pc = "detect"
    /\ DetectorCommand(system) # <<>>
    /\ "detector_oserror" \in env[file_name]
    /\ Guard(DetectorCommand(system)[1])
    /\ UNCHANGED <<system, detector_out, env, input_dir, out_exists, out_dir,
                   operation, mov_files, gpu_vendor, running, procs, calls,
                   list_out, runs, start_out>>

\* A detector that does not wait for its command to end.
DetectExitNotAwaited ==
    /\ pc = "detect_wait"
    /\ gpu_vendor' = DetectGpuVendor(system, detector_out)
    /\ pc' = "transcode"
    /\ UNCHANGED <<system, detector_out, env, input_dir, out_exists, out_dir,
                   operation, mov_files, idx, running, procs, calls, stdout,
                   list_out, runs, start_out>>

\* The inventory command ends (its exit status is not looked at); its output
\* is classified.
DetectExit ==
    /\ pc = "detect_wait"
    /\ running' = running \ {Len(procs)}
    /\ procs' = Ended(procs, "exited")
    /\ gpu_vendor' = DetectGpuVendor(system, detector_out)
    /\ pc' = "transcode"
    /\ UNCHANGED <<system, detector_out, env, input_dir, out_exists, out_dir,
                   operation, mov_files, idx, calls, stdout, list_out,
                   runs, start_out>>

\* convert_h265_to_h264 starts the transcoder.
TranscodeSpawn ==
    /\ pc = "transcode"
    /\ env[file_name] \ {"detector_oserror", "ffmpeg_oserror"} # {}
    /\ procs' = Append(procs, Proc("ffmpeg", Command(input_file, output_file, gpu_vendor)))
    /\ running' = running \cup {Len(procs) + 1}
    /\ pc' = "transcode_wait"
    /\ UNCHANGED <<system, detector_out, env, input_dir, out_exists, out_dir,
                   operation, mov_files, idx, gpu_vendor, calls, stdout,
                   list_out, runs, start_out>>

\* The transcoder cannot be started: not a CalledProcessError, so it leaves
\* convert_h265_to_h264 and the loop's guard catches it.
TranscodeSpawnFails ==
    /\ pc = "transcode"
    /\ "ffmpeg_oserror" \in env[file_name]
    /\ Guard("ffmpeg")
    /\ UNCHANGED <<system, detector_out, env, input_dir, out_exists, out_dir,
                   operation, mov_files, gpu_vendor, running, procs, calls,
                   list_out, runs, start_out>>

\* The transcoder exits 0: the output file exists, the completion notice.
TranscodeSucceeds ==
    /\ pc = "transcode_wait"
    /\ "exit0" \in env[file_name]
    /\ running' = running \ {Len(procs)}
    /\ procs' = Ended(procs, "exit0")
    /\ out_dir' = out_dir \cup {OutputName(file_name)}
    /\ NextFile(<<Line("complete", output_file, "")>>)
    /\ UNCHANGED <<system, detector_out, env, input_dir, out_exists, operation,
                   mov_files, gpu_vendor, calls, list_out, runs, start_out>>

\* A converter that lets CalledProcessError out, past a loop that has no guard.
CalledProcessErrorRaised ==
    /\ pc' = "aborted"
    /\ UNCHANGED <<stdout, idx>>

\* What the converter does with CalledProcessError: the error notice, and a
\* normal return to the loop.
CalledProcessError == NextFile(<<Line("error", input_file, "CalledProcessError")>>)

\* The transcoder exits non-zero, with or without a partial output file.
TranscodeFails ==
    /\ pc = "transcode_wait"
    /\ \E o \in env[file_name] \cap {"exit1", "exit1_partial"} :
          out_dir' = IF o = "exit1_partial"
                     THEN out_dir \cup {OutputName(file_name)}
                     ELSE out_dir
    /\ running' = running \ {Len(procs)}
    /\ procs' = Ended(procs, "exit1")
    /\ CalledProcessError
    /\ UNCHANGED <<system, detector_out, env, input_dir, out_exists, operation,
                   mov_files, gpu_vendor, calls, list_out, runs, start_out>>

Next ==
    \/ Main
    \/ Skip
    \/ Process
    \/ Finish
    \/ DetectUnsupported
    \/ DetectSpawn
    \/ DetectSpawnFails
    \/ DetectExit
    \/ TranscodeSpawn
    \/ TranscodeSpawnFails
    \/ TranscodeSucceeds
    \/ TranscodeFails

----------------------------------------------------------------------------
(* The machines, directories and runs explored. *)

MaxFiles == 3

\* Entries of the input directory: two names that differ in case only, an
\* upper-case extension, a name with ".mov" inside it, and a non-".mov" entry.
Name_A_mov     == <<"A", ".", "m", "o", "v">>
Name_a_mov     == <<"a", ".", "m", "o", "v">>
Name_b_MOV     == <<"b", ".", "M", "O", "V">>
Name_a_mov_mov == <<"a", ".", "m", "o", "v", ".", "m", "o", "v">>
Name_n_txt     == <<"n", ".", "t", "x", "t">>
NamePool == {Name_A_mov, Name_a_mov, Name_b_MOV, Name_a_mov_mov, Name_n_txt}

\* Files the output directory may hold before the run.
Name_a_mp4     == <<"a", ".", "m", "p", "4">>
Name_b_mp4     == <<"b", ".", "m", "p", "4">>
Name_a_mp4_mp4 == <<"a", ".", "m", "p", "4", ".", "m", "p", "4">>
OutPool == {Name_a_mp4, Name_b_mp4, Name_a_mp4_mp4}

Range(s) == {s[i] : i \in 1..Len(s)}

\* The directory listings of at most n entries: no name twice, any order.
Listings(pool, n) ==
    {s \in UNION {[1..k -> pool] : k \in 0..n} :
        \A i, j \in 1..Len(s) : s[i] = s[j] => i = j}

\* The output directory before the first run: absent, or holding some files.
StartDirs ==
    {[exists |-> FALSE, files |-> {}]}
        \cup {[exists |-> TRUE, files |-> S] : S \in SUBSET OutPool}

\* The text of an inventory command that names the keywords numbered in K,
\* in upper or in lower case.
Keywords == <<nvidia, amd, radeon, apple, m1, m2>>

UpperChar(c) ==
    IF \E i \in 1..Len(LowerChars) : LowerChars[i] = c
    THEN UpperChars[CHOOSE i \in 1..Len(LowerChars) : LowerChars[i] = c]
    ELSE c

Upper(s) == [i \in 1..Len(s) |-> UpperChar(s[i])]

RECURSIVE TextFrom(_, _, _)
TextFrom(i, K, up) ==
    IF i > Len(Keywords) THEN <<>>
    ELSE (IF i \in K
          THEN (IF up THEN Upper(Keywords[i]) ELSE Keywords[i]) \o <<" ">>
          ELSE <<>>) \o TextFrom(i + 1, K, up)

Text(K, up) == <<"V", "G", "A", " ">> \o TextFrom(1, K, up)

AllTexts == {Text(K, up) : K \in SUBSET (1..Len(Keywords)), up \in BOOLEAN}
AllSystems == {"Linux", "Windows", "Darwin", "Java"}

\* The state before main runs, on a given machine and pair of directories.
Start(sys, text, listing, dir, op, e) ==
    /\ system = sys
    /\ detector_out = text
    /\ env = e
    /\ input_dir = listing
    /\ out_exists = dir.exists
    /\ out_dir = dir.files
    /\ operation = op
    /\ pc = "main"
    /\ mov_files = <<>>
    /\ idx = 0
    /\ gpu_vendor = "none"
    /\ running = {}
    /\ procs = <<>>
    /\ calls = <<>>
    /\ stdout = <<>>
    /\ list_out = {}
    /\ runs = <<>>
    /\ start_out = dir

\* One run of the program over any directory of at most MaxFiles entries,
\* every external process free to fail.
Init ==
    \E sys \in {"Linux", "Java"}, listing \in Listings(NamePool, MaxFiles),
       dir \in {d \in StartDirs : d.files \subseteq {Name_a_mp4, Name_a_mp4_mp4}},
       op \in {"convert", "convert-diff"} :
        Start(sys, Text({1, 2}, TRUE), listing, dir, op,
              [f \in Range(listing) |-> OutcomesOn(sys)])

Spec == Init /\ [][Next]_vars

----------------------------------------------------------------------------
(* Two runs of the program, one after the other. *)

MaxSessionFiles == 2

\* What a finished run leaves to compare the next run with; next tells how
\* the next run was started.
Summary(next) ==
    [operation |-> operation, calls |-> calls, procs |-> procs,
     stdout |-> stdout, out_after |-> out_dir, next |-> next]

\* The program starts again with operation op, its own state fresh.
Restart(next, op) ==
    /\ pc = "done"
    /\ runs = <<>>
    /\ runs' = Append(runs, Summary(next))
    /\ operation' = op
    /\ pc' = "main"
    /\ mov_files' = <<>>
    /\ idx' = 0
    /\ gpu_vendor' = "none"
    /\ procs' = <<>>
    /\ calls' = <<>>
    /\ stdout' = <<>>
    /\ list_out' = {}
    /\ UNCHANGED <<system, detector_out, env, input_dir, running, start_out>>

\* The user runs the program again on the directories as the first run left them.
Again ==
    \E op \in {"convert", "convert-diff"} :
        /\ Restart("again", op)
        /\ UNCHANGED <<out_exists, out_dir>>

\* The user puts the output directory back as it was before the first run and
\* runs the program again.
Restore ==
    \E op \in {"convert", "convert-diff"} :
        /\ Restart("restored", op)
        /\ out_exists' = start_out.exists
        /\ out_dir' = start_out.files

NextSession == Next \/ Again \/ Restore

\* The external processes have one fixed outcome for each input file, the same
\* in both runs.
InitSession ==
    \E sys \in {"Linux", "Java"},
       listing \in Listings({Name_A_mov, Name_a_mov, Name_b_MOV}, MaxSessionFiles),
       dir \in {d \in StartDirs : d.files \subseteq {Name_a_mp4, Name_b_mp4}},
       op \in {"convert", "convert-diff"} :
        \E e \in [Range(listing) -> {{o} : o \in OutcomesOn(sys)}] :
            Start(sys, Text({1, 2}, TRUE), listing, dir, op, e)

SpecSession == InitSession /\ [][NextSession]_vars

\* One run over a directory of one file, on every system and every
\* combination of keywords in the inventory command's output.
InitDetect ==
    \E sys \in AllSystems, text \in AllTexts,
       dir \in {d \in StartDirs : d.files \subseteq {Name_a_mp4}} :
        Start(sys, text, <<Name_A_mov>>, dir, "convert", [f \in {Name_A_mov} |-> OutcomesOn(sys)])

SpecDetect == InitDetect /\ [][Next]_vars

----------------------------------------------------------------------------
(* What the properties speak of. *)

Supported == system \in {"Linux", "Windows", "Darwin"}

\* The printed lines of one kind, and the processes of each kind, by position.
Lines(kind) == {k \in 1..Len(stdout) : stdout[k].line = kind}
Transcoders(ps) == {j \in 1..Len(ps) : ps[j].cmd = "ffmpeg"}
Detectors(ps) == {j \in 1..Len(ps) : ps[j].cmd # "ffmpeg"}

\* The "Failed to convert" lines that report the inventory command.
DetectionFailures == {k \in Lines("failed") : stdout[k].detail # "ffmpeg"}

\* A name ends with ".mov" in any mix of cases.
EndsInDotMovAnyCase(f) ==
    /\ Len(f) >= 4
    /\ f[Len(f) - 3] = "."
    /\ f[Len(f) - 2] \in {"m", "M"}
    /\ f[Len(f) - 1] \in {"o", "O"}
    /\ f[Len(f)] \in {"v", "V"}

\* Every candidate of the work list has had its turn: each has its progress
\* line or a skip notice for its output, and there is one line for each.
AllVisited ==
    /\ Cardinality(Lines("skip")) + Cardinality(Lines("processing")) = Len(mov_files)
    /\ \A i \in 1..Len(mov_files) :
          \/ \E k \in Lines("processing") :
                /\ stdout[k].idx = i
                /\ stdout[k].path = Join(InputDir, mov_files[i])
          \/ \E k \in Lines("skip") :
                stdout[k].path = Join(OutputDir, OutputName(mov_files[i]))

\* A candidate whose output file does not exist at its turn is handed to the
\* converter.
HandedWhenAbsent ==
    (pc = "loop" /\ idx <= Len(mov_files) /\ ~Exists(output_file, out_dir))
        => calls' = Append(calls, [input |-> input_file, output |-> output_file])

----------------------------------------------------------------------------
(* C1: when the transcoder exits non-zero for a candidate, the converter    *)
(* prints an error naming the input path and returns normally to the loop,  *)
(* which goes on: every candidate of the work list gets its turn, and each  *)
(* one whose output file does not exist at its turn is handed to the        *)
(* converter.                                                               *)

C1_ErrorPrinted ==
    \A j \in Transcoders(procs) :
        procs[j].status = "exit1"
            => \E k \in Lines("error") : stdout[k].path = procs[j].argv.input

C1_ReturnsToLoop ==
    (pc = "transcode_wait" /\ procs'[Len(procs)].status = "exit1")
        => /\ pc' = "loop"
           /\ idx' = idx + 1
           /\ stdout' = Append(stdout, Line("error", input_file, "CalledProcessError"))

C1_BatchSurvivesTranscoderFailure ==
    /\ [](C1_ErrorPrinted /\ (pc = "done" => AllVisited))
    /\ [][C1_ReturnsToLoop /\ HandedWhenAbsent]_vars

\* A finished run in which a transcoder failed and a later file was transcoded.
C1_Witness ==
    /\ pc = "done"
    /\ \E i, j \in Transcoders(procs) :
          i < j /\ procs[i].status = "exit1" /\ procs[j].status = "exit0"

----------------------------------------------------------------------------
(* C2, as claimed: once the inventory command has failed to start, the run  *)
(* is over: no later candidate is processed.                                *)

C2_DetectionFailureAbortsRun ==
    \A k \in DetectionFailures :
        \A later \in Lines("processing") : later < k

(* C2, as the code has it: a failure to start the inventory command is      *)
(* caught by the guard of the loop: "Failed to convert" is printed for the  *)
(* input file, no transcoder is started for it, and the loop goes on to the *)
(* next candidate, so every candidate still gets its turn.                  *)

C2_NoTranscoderForFailure ==
    \A k \in DetectionFailures :
        \A j \in Transcoders(procs) : procs[j].argv.input # stdout[k].path

C2_CaughtByGuard ==
    (pc = "detect" /\ pc' \notin {"detect_wait", "transcode"})
        => /\ pc' = "loop"
           /\ idx' = idx + 1
           /\ stdout' = Append(stdout, Line("failed", input_file, DetectorCommand(system)[1]))
           /\ procs' = procs

C2_DetectionFailureIsPerFile ==
    /\ [](C2_NoTranscoderForFailure /\ (pc = "done" => AllVisited))
    /\ [][C2_CaughtByGuard]_vars

\* A finished run in which detection failed for a file and a later file was
\* transcoded.
C2_Witness ==
    /\ pc = "done"
    /\ \E k \in DetectionFailures : \E later \in Lines("complete") : k < later

----------------------------------------------------------------------------
(* C3: the output path handed to the converter for an input entry is the    *)
(* entry's name lowercased with only its trailing ".mov" replaced by        *)
(* ".mp4", whatever else the name contains.                                 *)

SuffixToMp4(f) == SubSeq(Lower(f), 1, Len(f) - Len(DotMov)) \o DotMp4

C3_OnlyTrailingSuffixReplaced ==
    \A i \in 1..Len(calls) :
        \E f \in Range(input_dir) :
            /\ calls[i].input = Join(InputDir, f)
            /\ calls[i].output = Join(OutputDir, SuffixToMp4(f))

----------------------------------------------------------------------------
(* C4: detect_gpu_vendor returns the first match of the priority order of   *)
(* its system among the keywords present in the lowercased output: nvidia,  *)
(* then amd (amd or radeon) on Linux and Windows; apple (apple, m1 or m2),  *)
(* then amd, then nvidia on macOS; none when nothing matches; and none,     *)
(* with no command run, on any other system.                                *)

Has(keyword) == Contains(Lower(detector_out), keyword)

PriorityOrder(sys) ==
    CASE sys \in {"Linux", "Windows"} ->
            << [vendor |-> "nvidia", keys |-> {nvidia}],
               [vendor |-> "amd",    keys |-> {amd, radeon}] >>
      [] sys = "Darwin" ->
            << [vendor |-> "apple",  keys |-> {apple, m1, m2}],
               [vendor |-> "amd",    keys |-> {amd, radeon}],
               [vendor |-> "nvidia", keys |-> {nvidia}] >>
      [] OTHER -> <<>>

FirstMatch(order) ==
    LET hits == {i \in 1..Len(order) : \E k \in order[i].keys : Has(k)} IN
    IF hits = {} THEN "none"
    ELSE order[CHOOSE i \in hits : \A j \in hits : i <= j].vendor

C4_VendorFollowsPriorityOrder ==
    /\ pc \in {"transcode", "transcode_wait"} => gpu_vendor = FirstMatch(PriorityOrder(system))
    /\ ~Supported => Detectors(procs) = {}

\* Linux, an output naming both nvidia and amd: nvidia.
C4_Witness ==
    /\ pc = "transcode"
    /\ system = "Linux"
    /\ Has(nvidia) /\ Has(amd) /\ Has(apple)
    /\ gpu_vendor = "nvidia"

----------------------------------------------------------------------------
(* C5: in diff mode the work list holds a ".mov" entry of the input         *)
(* directory if and only if the output file derived for it does not exist   *)
(* when the list is built; without diff mode it holds every ".mov" entry;   *)
(* entries that do not end in ".mov" (in any case) are in neither.          *)

----------------------------------------------------------------------------
(* C7: "convert" on a directory of n ".mov" entries with pairwise distinct  *)
(* derived output names, and any other entries, with an empty output        *)
(* directory, calls the converter exactly once for each ".mov" entry, in    *)
(* the listing's order, with its derived output path, never for another     *)
(* entry, and prints exactly the progress lines i/n for i = 1..n, in order. *)

MovEntries == SelectSeq(input_dir, EndsInDotMovAnyCase)

C7_Case ==
    /\ operation = "convert"
    /\ start_out.files = {}
    /\ \A i, j \in 1..Len(MovEntries) :
          OutputName(MovEntries[i]) = OutputName(MovEntries[j]) => i = j

----------------------------------------------------------------------------
(* C9, as claimed: at most one external process runs at a time, and on a    *)
(* supported system every call of the converter runs one detection command  *)
(* and then one transcoder, so k calls have spawned k detection processes   *)
(* and k transcoder processes once they have returned.                      *)

Serialized ==
    /\ Cardinality(running) <= 1
    /\ running = {j \in 1..Len(procs) : procs[j].status = "running"}

C9_OneDetectionAndOneTranscoderPerCall ==
    /\ Serialized
    /\ (Supported /\ pc \in {"loop", "done"}) =>
          /\ Cardinality(Detectors(procs)) = Len(calls)
          /\ Cardinality(Transcoders(procs)) = Len(calls)

(* C9, as the code has it: at most one external process runs at a time; on  *)
(* a supported system a call of the converter starts at most one detection  *)
(* command and, only once that command has ended, at most one transcoder,   *)
(* so a transcoder always comes right after the ended detection process of  *)
(* its own call and no detection result is reused; k calls spawn at most k  *)
(* detection processes and no more transcoders than detections, and exactly *)
(* k of each, alternating, when no command failed to start. On another      *)
(* system no detection process is ever spawned.                             *)

C9_SerializedFreshDetection ==
    /\ Serialized
    /\ Supported =>
          /\ \A j \in Transcoders(procs) :
                /\ j > 1
                /\ procs[j - 1].cmd = DetectorCommand(system)[1]
                /\ procs[j - 1].status = "exited"
          /\ Cardinality(Transcoders(procs)) <= Cardinality(Detectors(procs))
          /\ Cardinality(Detectors(procs)) <= Len(calls)
          /\ (pc \in {"loop", "done"} /\ Lines("failed") = {}) =>
                /\ Len(procs) = 2 * Len(calls)
                /\ \A j \in 1..Len(procs) : (j \in Transcoders(procs)) <=> (j % 2 = 0)
    /\ ~Supported =>
          /\ Detectors(procs) = {}
          /\ Cardinality(Transcoders(procs)) <= Len(calls)

\* A finished run on a supported system: two calls, four processes.
C9_Witness ==
    /\ pc = "done"
    /\ Supported
    /\ Lines("failed") = {}
    /\ Len(calls) = 2
    /\ Len(procs) = 4

----------------------------------------------------------------------------
(* C10: the converter is never handed an output path that exists at the     *)
(* per-file check: no transcoder is ever started on a file that was in the  *)
(* output directory before the run or that an earlier successful conversion *)
(* of the run created, also when two input names derive the same output.    *)

C10_TargetsAreNew ==
    /\ \A i \in 1..Len(calls) : ~Exists(calls[i].output, start_out.files)
    /\ \A j \in Transcoders(procs) :
          /\ ~Exists(procs[j].argv.output, start_out.files)
          /\ \A i \in Transcoders(procs) :
                (i < j /\ procs[i].status = "exit0")
                    => procs[i].argv.output # procs[j].argv.output

C10_AbsentAtCheck ==
    Len(calls') = Len(calls) + 1 => ~Exists(calls'[Len(calls')].output, out_dir)

C10_NeverAnExistingTarget ==
    /\ []C10_TargetsAreNew
    /\ [][C10_AbsentAtCheck]_vars

\* Two inputs of one output path: the first converted, the second skipped.
C10_Witness ==
    /\ pc = "done"
    /\ \E i, j \in 1..Len(mov_files) :
          /\ i < j
          /\ OutputName(mov_files[i]) = OutputName(mov_files[j])
          /\ \E p \in Transcoders(procs) :
                /\ procs[p].argv.input = Join(InputDir, mov_files[i])
                /\ procs[p].status = "exit0"
          /\ \E k \in Lines("skip") :
                stdout[k].path = Join(OutputDir, OutputName(mov_files[j]))

----------------------------------------------------------------------------
(* C6: from the same directories and with the same outcomes of the external *)
(* processes, "convert" and "convert-diff" hand the same input files to the *)
(* converter in the same order and leave the same output files.             *)

OtherModeFromSameStart ==
    /\ pc = "done"
    /\ Len(runs) = 1
    /\ runs[1].next = "restored"
    /\ runs[1].operation # operation

C6_ModesAgree ==
    OtherModeFromSameStart =>
        /\ calls = runs[1].calls
        /\ out_dir = runs[1].out_after

\* One file already converted before the runs, another handed to the
\* converter by both.
C6_Witness ==
    /\ OtherModeFromSameStart
    /\ Len(calls) >= 1
    /\ \E f \in Range(input_dir) : OutputName(f) \in start_out.files

----------------------------------------------------------------------------
(* C8: after a run in which every file handed to the converter was          *)
(* transcoded with exit status 0, a second run over the same directories,   *)
(* in either mode, starts no external process and leaves the output files   *)
(* as they were.                                                            *)

AllTranscoded(r) ==
    \A i \in 1..Len(r.calls) :
        \E j \in Transcoders(r.procs) :
            /\ r.procs[j].argv.input = r.calls[i].input
            /\ r.procs[j].status = "exit0"

C8_SecondRunDoesNothing ==
    (Len(runs) = 1 /\ runs[1].next = "again" /\ AllTranscoded(runs[1])) =>
        /\ procs = <<>>
        /\ calls = <<>>
        /\ out_dir = runs[1].out_after

\* A finished second run after a first run that transcoded two files.
C8_Witness ==
    /\ pc = "done"
    /\ Len(runs) = 1
    /\ runs[1].next = "again"
    /\ AllTranscoded(runs[1])
    /\ Len(runs[1].calls) = 2
    /\ Cardinality(Lines("skip")) = 2

====
